---- MODULE Spec2Model ----
(***************************************************************************)
(* Model of enhanced_csi._BaseVideoStream (capture thread, 2-slot frame    *)
(* queue, RepeatTimer statistics) and of the application loop in app.py.   *)
(*                                                                         *)
(* Threads: one caller (the consumer), the capture threads created by      *)
(* start(), the RepeatTimer threads created by start_counting_fps().       *)
(* Every step is one line (or one attribute load/store) of the source, so  *)
(* that the interleavings the interpreter allows are the model's.          *)
(***************************************************************************)
EXTENDS Integers, Sequences, FiniteSets, TLC

\* ---- bounds of the model ----
MaxFrames == 4        \* frames the backend delivers before it can only fail
MaxStarts == 2        \* start() calls on the instance
MaxStops == 1         \* stop() calls on the instance
MaxTimers == 2        \* start_counting_fps() calls on the instance
MaxDisplayed == 1     \* frames_displayed increments by the consumer
MaxTicks == 2         \* ticks of the statistics timers
E2EFrames == 5        \* frames of the end-to-end scenario's device (F1..F5)
StatsFrames == 3      \* frames of the statistics scenario's device

Threads == 1..MaxStarts
Devices == 1..MaxStarts
Timers  == 1..MaxTimers

VARIABLES
    \* fields of _BaseVideoStream
    _stream,               \* 0 (None) or the VideoCapture object
    _thread,               \* 0 (None) or the latest capture thread
    _stopped,
    _update_failure,       \* "unset" (no attribute yet), "clear", "set"
    _frame_queue,          \* deque(maxlen=2); index 1 is the left end
    frames_read, frames_displayed,
    last_frames_read, last_frames_displayed,
    fps_timer,             \* 0 (None) or the latest RepeatTimer
    \* the backend
    dev,                   \* VideoCapture objects: state and release() calls
    nframes,               \* frames delivered so far; frame k is the k-th
    \* capture threads (_update)
    tpc, tframe, tload,
    \* RepeatTimer threads
    mpc, finished,
    \* the caller
    cpc, cop, cres, cload, rframe, app,
    \* history (observations, never read by the program)
    pushed, delivered, nopop, badReads, counted, snapRead, shown, snapShown,
    nstarts, nstops, nticks, terminalAtCall, tick,
    \* JetsonVideoStream.__init__: its arguments and what it built
    profile

vars == << _stream, _thread, _stopped, _update_failure, _frame_queue,
           frames_read, frames_displayed, last_frames_read,
           last_frames_displayed, fps_timer, dev, nframes, tpc, tframe, tload,
           mpc, finished, cpc, cop, cres, cload, rframe, app, pushed, delivered,
           nopop, badReads, counted, snapRead, shown, snapShown, nstarts,
           nstops, nticks, terminalAtCall, tick, profile >>

fields   == << _stream, _thread, _stopped, _update_failure >>
queue    == << _frame_queue, pushed, delivered, nopop, rframe >>
counters == << frames_read, frames_displayed, last_frames_read,
               last_frames_displayed, counted, snapRead, shown, snapShown >>
backend  == << dev, nframes, badReads >>
capture  == << tpc, tframe, tload >>
timers   == << fps_timer, mpc, finished, nticks >>
calls    == << cop, nstarts, nstops, terminalAtCall, tick, profile >>
called   == << cop, nstarts, nstops, terminalAtCall, profile >>

\* ---- the deque ----
\* _queue_depth
QueueDepth == 2

\* a deque built without maxlen: nothing is ever dropped
AppendLeftUnbounded(q, f) == <<f>> \o q

\* append in place of appendleft: a full deque drops its left end
AppendRight(q, f) ==
    IF Len(q) >= QueueDepth THEN SubSeq(q, 2, QueueDepth) \o <<f>>
    ELSE q \o <<f>>

\* deque.appendleft on a deque(maxlen=QueueDepth): a full deque drops its
\* right end
AppendLeft(q, f) ==
    IF Len(q) >= QueueDepth THEN <<f>> \o SubSeq(q, 1, QueueDepth - 1)
    ELSE <<f>> \o q

\* popleft in place of pop: the end the pushes land on
PopLeftValue(q) == q[1]

\* deque.pop: removes and returns the right end
PopValue(q) == q[Len(q)]
\* a pop that leaves the frame in the queue
PopRestKeep(q) == q
PopRest(q) == SubSeq(q, 1, Len(q) - 1)

\* ---- the account of the ticks (history) ----
\* clean: so far no tick has run while an increment or another tick was
\* under way; base_r, base_d: the increments made when the latest tick
\* ended; k, m: the increments made between the two latest ends of a tick
NoTick == [clean |-> TRUE, base_r |-> 0, base_d |-> 0, k |-> 0, m |-> 0]
Dirty  == [clean |-> FALSE, base_r |-> 0, base_d |-> 0, k |-> 0, m |-> 0]

InFlight(m) == mpc[m] \in {"copy_displayed", "reset_read", "reset_displayed"}
TickInFlight == \E m \in Timers : InFlight(m)
IncrementInFlight ==
    \/ \E t \in Threads : tpc[t] = "inc_store"
    \/ cpc = "displayed_store"

\* ---- __init__ ----
Construct ==
    /\ _stream = 0 /\ _thread = 0 /\ _stopped = FALSE
    /\ _update_failure = "unset"
    /\ _frame_queue = << >>
    /\ frames_read = 0 /\ frames_displayed = 0
    /\ last_frames_read = 0 /\ last_frames_displayed = 0
    /\ fps_timer = 0
    /\ dev = [d \in Devices |-> [state |-> "none", releases |-> 0]]
    /\ nframes = 0
    /\ tpc = [t \in Threads |-> "none"]
    /\ tframe = [t \in Threads |-> 0]
    /\ tload = [t \in Threads |-> 0]
    /\ mpc = [m \in Timers |-> "none"]
    /\ finished = [m \in Timers |-> FALSE]
    /\ cpc = "idle" /\ cop = "none" /\ cres = "none" /\ cload = 0
    /\ rframe = 0
    /\ pushed = << >> /\ delivered = << >> /\ nopop = 0
    /\ badReads = 0 /\ counted = 0 /\ snapRead = 0
    /\ shown = 0 /\ snapShown = 0
    /\ nstarts = 0 /\ nstops = 0 /\ nticks = 0
    /\ terminalAtCall = FALSE
    /\ tick = NoTick

\* ---- JetsonVideoStream.__init__ ----
MaxCam == 1           \* sensor ids 0..MaxCam

\* the members of FrameRotation, each with its value
ROTATE_NONE == [name |-> "ROTATE_NONE", value |-> 0]
ROTATE_90   == [name |-> "ROTATE_90", value |-> 90]
ROTATE_180  == [name |-> "ROTATE_180", value |-> 180]
FrameRotation == {ROTATE_NONE, ROTATE_90, ROTATE_180}

\* the members of JetsonCameraMode, each name split at its "_" and "x":
\* sensor, width, height, framerate, sensor mode
IMX219_3264x2468_21_0 == << "IMX219", 3264, 2468, 21, 0 >>
IMX219_3264x1848_28_1 == << "IMX219", 3264, 1848, 28, 1 >>
IMX219_1920x1080_30_2 == << "IMX219", 1920, 1080, 30, 2 >>
IMX219_1640x1232_30_3 == << "IMX219", 1640, 1232, 30, 3 >>
IMX477_4032x3040_30_0 == << "IMX477", 4032, 3040, 30, 0 >>
IMX477_1920x1080_60_1 == << "IMX477", 1920, 1080, 60, 1 >>
IMX477_2560x1440_40_3 == << "IMX477", 2560, 1440, 40, 3 >>
JetsonCameraMode ==
    {IMX219_3264x2468_21_0, IMX219_3264x1848_28_1, IMX219_1920x1080_30_2,
     IMX219_1640x1232_30_3, IMX477_4032x3040_30_0, IMX477_1920x1080_60_1,
     IMX477_2560x1440_40_3}

\* values that are no member of the enumerations: the bare numbers behind
\* the members, a name that does not exist, None
OtherRotations == {[name |-> "int", value |-> 90],
                   [name |-> "ROTATE_270", value |-> 270],
                   [name |-> "None", value |-> 0]}
OtherModes == { << "int", 0, 0, 0, 2 >>, << "IMX477", 1920, 1080, 30, 2 >>,
                << "None", 0, 0, 0, 0 >> }

Invalid == -1

\* the rotation chain with the flips of ROTATE_90 and ROTATE_180 exchanged
FlipExchanged(rotation) ==
    CASE rotation = ROTATE_NONE -> 0
      [] rotation = ROTATE_90 -> 2
      [] rotation = ROTATE_180 -> 1
      [] OTHER -> Invalid

\* the if/elif chain on self._rotation; Invalid stands for the ValueError
Flip(rotation) ==
    CASE rotation = ROTATE_NONE -> 0
      [] rotation = ROTATE_90 -> 1
      [] rotation = ROTATE_180 -> 2
      [] OTHER -> Invalid

Params(mode, w, h, fr) ==
    [mode |-> mode, capture_width |-> w, capture_height |-> h,
     framerate |-> fr]

\* the if/elif chain on self._sensor_mode
SensorMode(camera_mode) ==
    CASE camera_mode = IMX219_3264x2468_21_0 -> Params(0, 3264, 2468, 21)
      [] camera_mode = IMX219_3264x1848_28_1 -> Params(1, 3264, 1848, 28)
      [] camera_mode = IMX219_1920x1080_30_2 -> Params(2, 1920, 1080, 30)
      [] camera_mode = IMX219_1640x1232_30_3 -> Params(3, 1640, 1232, 30)
      [] camera_mode = IMX477_4032x3040_30_0 -> Params(0, 4032, 3040, 30)
      [] camera_mode = IMX477_1920x1080_60_1 -> Params(1, 1920, 1080, 60)
      [] camera_mode = IMX477_2560x1440_40_3 -> Params(3, 2560, 1440, 40)
      [] OTHER -> Params(Invalid, Invalid, Invalid, Invalid)

NotBuilt == [flip |-> Invalid, sensor |-> Params(Invalid, Invalid, Invalid,
                                                 Invalid), cmd |-> << >>]

\* the arguments of a construction that has not run yet
Arguments(cam, rotation, camera_mode, display) ==
    [state |-> "args", cam |-> cam, rotation |-> rotation,
     camera_mode |-> camera_mode, display |-> display, built |-> NotBuilt]

\* the default arguments of JetsonVideoStream()
DefaultArguments ==
    Arguments(0, ROTATE_NONE, IMX219_1920x1080_30_2, << 640, 480 >>)

\* __init__: the two chains, then the pipeline string from their results
JetsonInit ==
    /\ profile.state = "args"
    /\ LET flip == Flip(profile.rotation)
           sensor == SensorMode(profile.camera_mode)
       IN  profile' =
             IF flip = Invalid \/ sensor.mode = Invalid
             THEN [profile EXCEPT !.state = "ValueError"]
             ELSE [profile EXCEPT
                     !.state = "constructed",
                     !.built = [flip |-> flip, sensor |-> sensor,
                                cmd |-> << profile.cam, sensor.mode,
                                           sensor.capture_width,
                                           sensor.capture_height,
                                           sensor.framerate, flip,
                                           profile.display[1],
                                           profile.display[2] >>]]
    /\ UNCHANGED << fields, queue, counters, backend, capture, timers, cpc,
                    cres, cload, app, cop, nstarts, nstops, terminalAtCall,
                    tick >>

InitProfile ==
    /\ Construct /\ app = "off"
    /\ \E cam \in 0..MaxCam, rotation \in FrameRotation \cup OtherRotations,
          camera_mode \in JetsonCameraMode \cup OtherModes,
          display \in {<< 640, 480 >>, << 1280, 720 >>} :
          profile = Arguments(cam, rotation, camera_mode, display)

NextProfile == JetsonInit

SpecProfile == InitProfile /\ [][NextProfile]_vars

\* a caller that is free to make any call, on a stream that was built
Built ==
    [DefaultArguments EXCEPT
       !.state = "constructed",
       !.built = [flip |-> 0, sensor |-> Params(2, 1920, 1080, 30),
                  cmd |-> << 0, 2, 1920, 1080, 30, 0, 640, 480 >>]]
Init == Construct /\ app = "off" /\ profile = Built

NumDevices == Cardinality({d \in Devices : dev[d].state # "none"})
NumThreads == Cardinality({t \in Threads : tpc[t] # "none"})
NumTimers  == Cardinality({m \in Timers : mpc[m] # "none"})

\* the caller returns from a call with result r
Return(r) == cpc' = "idle" /\ cres' = r

\* ---- start() ----
\* cv2.VideoCapture(cmd, backend): raises, or gives an object that is opened
\* or not
StartOpen(outcome) ==
    /\ cpc = "start_open"
    /\ IF outcome = "raise"
       THEN /\ Return("CameraFailedToStart")
            /\ UNCHANGED << _stream, dev >>
       ELSE /\ _stream' = NumDevices + 1
            /\ dev' = [dev EXCEPT ![NumDevices + 1].state = outcome]
            /\ IF outcome = "opened"
               THEN cpc' = "start_first_read" /\ UNCHANGED cres
               ELSE Return("CameraFailedToStart")
    /\ UNCHANGED << _thread, _stopped, _update_failure, queue, counters,
                    nframes, badReads, capture, timers, cload, app, calls >>

\* start() without the check of the first read's result
StartFirstReadUnchecked(ok) ==
    /\ cpc = "start_first_read"
    /\ ok => dev[_stream].state = "opened"
    /\ nframes' = IF ok THEN nframes + 1 ELSE nframes
    /\ cpc' = "start_spawn" /\ UNCHANGED cres
    /\ UNCHANGED << fields, queue, counters, dev, badReads, capture, timers,
                    cload, app, calls >>

\* the first, synchronous read of start(); its frame is not queued
StartFirstRead(ok) ==
    /\ cpc = "start_first_read"
    /\ ok => dev[_stream].state = "opened"
    /\ IF ok
       THEN /\ nframes' = nframes + 1
            /\ cpc' = "start_spawn" /\ UNCHANGED cres
       ELSE /\ Return("CameraFailedToStart")
            /\ UNCHANGED nframes
    /\ UNCHANGED << fields, queue, counters, dev, badReads, capture, timers,
                    cload, app, calls >>

\* a fresh Event, a fresh Thread running _update
StartSpawn ==
    /\ cpc = "start_spawn"
    /\ _update_failure' = "clear"
    /\ _thread' = NumThreads + 1
    /\ tpc' = [tpc EXCEPT ![NumThreads + 1] = "check"]
    /\ Return("ok")
    /\ UNCHANGED << _stream, _stopped, queue, counters, backend, tframe,
                    tload, timers, cload, app, calls >>

\* ---- _update(), the capture loop of thread t ----
\* a loop that does not look at the stop flag
CaptureIgnoreStopped(t) ==
    /\ tpc[t] = "check"
    /\ tpc' = [tpc EXCEPT ![t] = "read"]
    /\ UNCHANGED << fields, queue, counters, backend, tframe, tload, timers,
                    cpc, cres, cload, app, calls >>

CaptureCheckStopped(t) ==
    /\ tpc[t] = "check"
    /\ tpc' = [tpc EXCEPT ![t] = IF _stopped THEN "done" ELSE "read"]
    /\ UNCHANGED << fields, queue, counters, backend, tframe, tload, timers,
                    cpc, cres, cload, app, calls >>

\* self._stream.read(): the attribute is looked up at every iteration
CaptureRead(t, ok) ==
    /\ tpc[t] = "read"
    /\ ok => dev[_stream].state = "opened"
    /\ badReads' = IF dev[_stream].state = "released"
                   THEN badReads + 1 ELSE badReads
    /\ IF ok
       THEN /\ nframes' = nframes + 1
            /\ tframe' = [tframe EXCEPT ![t] = nframes + 1]
            /\ tpc' = [tpc EXCEPT ![t] = "inc_load"]
            /\ UNCHANGED _update_failure
       ELSE /\ _update_failure' = "set"
            /\ tpc' = [tpc EXCEPT ![t] = "failed"]
            /\ UNCHANGED << nframes, tframe >>
    /\ UNCHANGED << _stream, _thread, _stopped, queue, counters, dev, tload,
                    timers, cpc, cres, cload, app, calls >>

\* self.frames_read += 1 is a load and a store
CaptureIncLoad(t) ==
    /\ tpc[t] = "inc_load"
    /\ tload' = [tload EXCEPT ![t] = frames_read]
    /\ tpc' = [tpc EXCEPT ![t] = "inc_store"]
    /\ UNCHANGED << fields, queue, counters, backend, tframe, timers, cpc,
                    cres, cload, app, called >>
    /\ tick' = IF TickInFlight THEN Dirty ELSE tick

CaptureIncStore(t) ==
    /\ tpc[t] = "inc_store"
    /\ frames_read' = tload[t] + 1
    /\ counted' = counted + 1
    /\ tpc' = [tpc EXCEPT ![t] = "push"]
    /\ UNCHANGED << fields, queue, frames_displayed, last_frames_read,
                    last_frames_displayed, snapRead, shown, snapShown,
                    backend, tframe, tload, timers, cpc, cres, cload, app,
                    calls >>

CapturePush(t) ==
    /\ tpc[t] = "push"
    /\ _frame_queue' = AppendLeft(_frame_queue, tframe[t])
    /\ pushed' = Append(pushed, tframe[t])
    /\ nopop' = nopop + 1
    /\ tpc' = [tpc EXCEPT ![t] = "check"]
    /\ UNCHANGED << fields, delivered, rframe, counters, backend, tframe,
                    tload, timers, cpc, cres, cload, app, calls >>

\* ---- read() ----
\* read() that looks at the queue before it looks at the failure flag
ReadCheckLenFirst ==
    /\ cpc = "read_check_failure"
    /\ IF _update_failure = "unset" THEN Return("AttributeError")
       ELSE IF Len(_frame_queue) > 0 THEN cpc' = "read_pop" /\ UNCHANGED cres
       ELSE IF _update_failure = "set" THEN Return("CameraConnectionLost")
       ELSE cpc' = "read_check_len" /\ UNCHANGED cres
    /\ UNCHANGED << fields, queue, counters, backend, capture, timers, cload,
                    app, calls >>

ReadCheckFailure ==
    /\ cpc = "read_check_failure"
    /\ IF _update_failure = "unset" THEN Return("AttributeError")
       ELSE IF _update_failure = "set" THEN Return("CameraConnectionLost")
       ELSE cpc' = "read_check_len" /\ UNCHANGED cres
    /\ UNCHANGED << fields, queue, counters, backend, capture, timers, cload,
                    app, calls >>

\* a length test that lets an empty queue through
ReadCheckLenNonNegative ==
    /\ cpc = "read_check_len"
    /\ cpc' = IF Len(_frame_queue) >= 0 THEN "read_pop"
              ELSE "read_check_failure"
    /\ UNCHANGED << fields, queue, counters, backend, capture, timers, cres,
                    cload, app, calls >>

ReadCheckLen ==
    /\ cpc = "read_check_len"
    /\ cpc' = IF Len(_frame_queue) > 0 THEN "read_pop"
              ELSE "read_check_failure"
    /\ UNCHANGED << fields, queue, counters, backend, capture, timers, cres,
                    cload, app, calls >>

ReadPop ==
    /\ cpc = "read_pop"
    /\ IF Len(_frame_queue) = 0
       THEN /\ Return("IndexError")
            /\ UNCHANGED queue
       ELSE /\ Return("frame")
            /\ rframe' = PopValue(_frame_queue)
            /\ _frame_queue' = PopRest(_frame_queue)
            /\ delivered' = Append(delivered, PopValue(_frame_queue))
            /\ nopop' = 0
            /\ UNCHANGED pushed
    /\ UNCHANGED << fields, counters, backend, capture, timers, cload, app,
                    calls >>

\* ---- stop() ----
StopSet ==
    /\ cpc = "stop_set"
    /\ _stopped' = TRUE
    /\ cpc' = "stop_join"
    /\ UNCHANGED << _stream, _thread, _update_failure, queue, counters,
                    backend, capture, timers, cres, cload, app, calls >>

\* if self._thread: self._thread.join()
StopJoin ==
    /\ cpc = "stop_join"
    /\ _thread # 0 => tpc[_thread] \in {"done", "failed"}
    /\ cpc' = "stop_release"
    /\ UNCHANGED << fields, queue, counters, backend, capture, timers, cres,
                    cload, app, calls >>

\* self._stream.release(); _stream is None when no VideoCapture was made
StopRelease ==
    /\ cpc = "stop_release"
    /\ IF _stream = 0
       THEN /\ Return("AttributeError")
            /\ UNCHANGED dev
       ELSE /\ Return("ok")
            /\ dev' = [dev EXCEPT ![_stream].state = "released",
                                  ![_stream].releases = @ + 1]
    /\ UNCHANGED << fields, queue, counters, nframes, badReads, capture,
                    timers, cload, app, calls >>

\* ---- update_fps_stats(), run by RepeatTimer m ----
\* RepeatTimer.run: finished.wait(interval) returns True once cancel() has
\* set the event, and False when the interval has passed
TimerWait(m) ==
    /\ mpc[m] = "wait"
    /\ ~finished[m] => nticks < MaxTicks
    /\ mpc' = [mpc EXCEPT ![m] = IF finished[m] THEN "done" ELSE "copy_read"]
    /\ UNCHANGED << fields, queue, counters, backend, capture, fps_timer,
                    finished, nticks, cpc, cres, cload, app, calls >>

\* a tick that copies both counters before it resets either, in one step
TickCopyReadAtomic(m) ==
    /\ mpc[m] = "copy_read"
    /\ last_frames_read' = frames_read
    /\ last_frames_displayed' = frames_displayed
    /\ snapRead' = snapRead + frames_read
    /\ snapShown' = snapShown + frames_displayed
    /\ frames_read' = 0 /\ frames_displayed' = 0
    /\ nticks' = nticks + 1
    /\ mpc' = [mpc EXCEPT ![m] = "wait"]
    /\ UNCHANGED << fields, queue, counted, shown, backend, capture,
                    fps_timer, finished, cpc, cres, cload, app, called >>
    /\ tick' = IF TickInFlight \/ IncrementInFlight \/ ~tick.clean THEN Dirty
               ELSE [clean |-> TRUE, base_r |-> counted, base_d |-> shown,
                     k |-> counted - tick.base_r, m |-> shown - tick.base_d]

\* self.last_frames_read = self.frames_read
TickCopyRead(m) ==
    /\ mpc[m] = "copy_read"
    /\ last_frames_read' = frames_read
    /\ snapRead' = snapRead + frames_read
    /\ mpc' = [mpc EXCEPT ![m] = "copy_displayed"]
    /\ UNCHANGED << fields, queue, frames_read, frames_displayed,
                    last_frames_displayed, counted, shown, snapShown,
                    backend, capture, fps_timer, finished, nticks, cpc, cres,
                    cload, app, called >>
    /\ tick' = IF TickInFlight \/ IncrementInFlight THEN Dirty ELSE tick

\* the second copy taken from the wrong counter
TickCopyDisplayedFromRead(m) ==
    /\ mpc[m] = "copy_displayed"
    /\ last_frames_displayed' = frames_read
    /\ snapShown' = snapShown + frames_read
    /\ mpc' = [mpc EXCEPT ![m] = "reset_read"]
    /\ UNCHANGED << fields, queue, frames_read, frames_displayed,
                    last_frames_read, counted, shown, snapRead, backend,
                    capture, fps_timer, finished, nticks, cpc, cres, cload,
                    app, calls >>

\* self.last_frames_displayed = self.frames_displayed
TickCopyDisplayed(m) ==
    /\ mpc[m] = "copy_displayed"
    /\ last_frames_displayed' = frames_displayed
    /\ snapShown' = snapShown + frames_displayed
    /\ mpc' = [mpc EXCEPT ![m] = "reset_read"]
    /\ UNCHANGED << fields, queue, frames_read, frames_displayed,
                    last_frames_read, counted, shown, snapRead, backend,
                    capture, fps_timer, finished, nticks, cpc, cres, cload,
                    app, calls >>

\* self.frames_read = 0
TickResetRead(m) ==
    /\ mpc[m] = "reset_read"
    /\ frames_read' = 0
    /\ mpc' = [mpc EXCEPT ![m] = "reset_displayed"]
    /\ UNCHANGED << fields, queue, frames_displayed, last_frames_read,
                    last_frames_displayed, counted, shown, snapRead,
                    snapShown, backend, capture, fps_timer, finished, nticks,
                    cpc, cres, cload, app, calls >>

\* self.frames_displayed = 0; the tick is over
TickResetDisplayed(m) ==
    /\ mpc[m] = "reset_displayed"
    /\ frames_displayed' = 0
    /\ nticks' = nticks + 1
    /\ mpc' = [mpc EXCEPT ![m] = "wait"]
    /\ UNCHANGED << fields, queue, frames_read, last_frames_read,
                    last_frames_displayed, counted, shown, snapRead,
                    snapShown, backend, capture, fps_timer, finished, cpc,
                    cres, cload, app, called >>
    /\ tick' = IF ~tick.clean THEN Dirty
               ELSE [clean |-> TRUE, base_r |-> counted, base_d |-> shown,
                     k |-> counted - tick.base_r, m |-> shown - tick.base_d]

\* ---- start_counting_fps() ----
\* a new RepeatTimer replaces fps_timer; an earlier one keeps running
StartCountingFps ==
    /\ cpc = "start_counting_fps"
    /\ fps_timer' = NumTimers + 1
    /\ mpc' = [mpc EXCEPT ![NumTimers + 1] = "wait"]
    /\ Return("ok")
    /\ UNCHANGED << fields, queue, counters, backend, capture, finished,
                    nticks, cload, app, calls >>

\* ---- release_fps_stats() ----
\* self.fps_timer.cancel(); fps_timer is None before start_counting_fps()
ReleaseCancel ==
    /\ cpc = "release_cancel"
    /\ IF fps_timer = 0
       THEN /\ Return("AttributeError")
            /\ UNCHANGED finished
       ELSE /\ finished' = [finished EXCEPT ![fps_timer] = TRUE]
            /\ cpc' = "release_join" /\ UNCHANGED cres
    /\ UNCHANGED << fields, queue, counters, backend, capture, fps_timer,
                    mpc, nticks, cload, app, calls >>

\* self.fps_timer.join()
ReleaseJoin ==
    /\ cpc = "release_join"
    /\ mpc[fps_timer] = "done"
    /\ Return("ok")
    /\ UNCHANGED << fields, queue, counters, backend, capture, timers, cload,
                    app, calls >>

\* ---- video_stream.frames_displayed += 1, by the consumer ----
DisplayedLoad ==
    /\ cpc = "displayed_load"
    /\ cload' = frames_displayed
    /\ cpc' = "displayed_store"
    /\ UNCHANGED << fields, queue, counters, backend, capture, timers, cres,
                    app, called >>
    /\ tick' = IF TickInFlight THEN Dirty ELSE tick

DisplayedStore ==
    /\ cpc = "displayed_store"
    /\ frames_displayed' = cload + 1
    /\ shown' = shown + 1
    /\ Return("ok")
    /\ UNCHANGED << fields, queue, frames_read, last_frames_read,
                    last_frames_displayed, counted, snapRead, snapShown,
                    backend, capture, timers, cload, app, calls >>

\* StreamState Failed: a capture loop ended on a failed read
Failed == \E t \in Threads : tpc[t] = "failed"
\* StreamState Stopped: a stop() has returned
Stopped == nstops > 0 /\ cpc \notin {"stop_set", "stop_join", "stop_release"}

\* ---- the caller ----
FirstStep(op) ==
    CASE op = "start" -> "start_open"
      [] op = "read" -> "read_check_failure"
      [] op = "stop" -> "stop_set"
      [] op = "start_counting_fps" -> "start_counting_fps"
      [] op = "release_fps_stats" -> "release_cancel"
      [] op = "displayed" -> "displayed_load"

\* the caller enters operation op
Begin(op) ==
    /\ cpc = "idle"
    /\ cpc' = FirstStep(op)
    /\ cres' = "none" /\ cop' = op
    /\ nstarts' = IF op = "start" THEN nstarts + 1 ELSE nstarts
    /\ nstops' = IF op = "stop" THEN nstops + 1 ELSE nstops
    /\ terminalAtCall' = (Failed \/ Stopped)
    /\ UNCHANGED << tick, profile >>
    /\ UNCHANGED << fields, queue, counters, backend, capture, timers,
                    cload >>

\* a caller that makes any sequence of calls
Call(op) ==
    /\ app = "off"
    /\ op = "start" => nstarts < MaxStarts
    /\ op = "stop" => nstops < MaxStops
    /\ op = "start_counting_fps" => NumTimers < MaxTimers
    /\ op = "displayed" => shown < MaxDisplayed
    /\ Begin(op)
    /\ UNCHANGED app

\* the backend can deliver a frame while fewer than n were delivered
Delivers(ok, n) == ok => nframes < n

Next ==
    \/ \E op \in {"start", "read", "stop"} : Call(op)
    \/ \E o \in {"raise", "closed", "opened"} : StartOpen(o)
    \/ \E ok \in BOOLEAN : Delivers(ok, MaxFrames) /\ StartFirstRead(ok)
    \/ StartSpawn
    \/ \E t \in Threads : CaptureCheckStopped(t)
    \/ \E t \in Threads, ok \in BOOLEAN :
          Delivers(ok, MaxFrames) /\ CaptureRead(t, ok)
    \/ \E t \in Threads : CaptureIncLoad(t)
    \/ \E t \in Threads : CaptureIncStore(t)
    \/ \E t \in Threads : CapturePush(t)
    \/ ReadCheckFailure
    \/ ReadCheckLen
    \/ ReadPop
    \/ StopSet
    \/ StopJoin
    \/ StopRelease

Spec == Init /\ [][Next]_vars

\* one step of capture thread t
CaptureStep(t) ==
    \/ CaptureCheckStopped(t)
    \/ \E ok \in BOOLEAN : Delivers(ok, MaxFrames) /\ CaptureRead(t, ok)
    \/ CaptureIncLoad(t)
    \/ CaptureIncStore(t)
    \/ CapturePush(t)

\* one step of the caller inside an operation
CallerStep ==
    \/ \E o \in {"raise", "closed", "opened"} : StartOpen(o)
    \/ \E ok \in BOOLEAN : Delivers(ok, MaxFrames) /\ StartFirstRead(ok)
    \/ StartSpawn
    \/ ReadCheckFailure
    \/ ReadCheckLen
    \/ ReadPop
    \/ StopSet
    \/ StopJoin
    \/ StopRelease

\* every thread that can run gets to run, and every backend read returns
SpecFair ==
    /\ Spec
    /\ \A t \in Threads : WF_vars(CaptureStep(t))
    /\ WF_vars(CallerStep)

\* a caller that calls start() once, and read() and stop() as it likes
CallStop(op) ==
    /\ op = "start" => nstarts = 0
    /\ Call(op)

NextStop ==
    \/ \E op \in {"start", "read", "stop"} : CallStop(op)
    \/ \E t \in Threads : CaptureStep(t)
    \/ CallerStep

SpecStop ==
    /\ Init /\ [][NextStop]_vars
    /\ \A t \in Threads : WF_vars(CaptureStep(t))
    /\ WF_vars(CallerStep)

\* ---- the end-to-end scenario: one start() on a device that delivers
\* ---- E2EFrames frames and then fails; the consumer reads until a read()
\* ---- raises
CallE2E(op) ==
    /\ op = "start" => nstarts = 0
    /\ op = "read" => \/ (cop = "start" /\ cres = "ok")
                      \/ (cop = "read" /\ cres = "frame")
    /\ Call(op)

NextE2E ==
    \/ \E op \in {"start", "read"} : CallE2E(op)
    \/ StartOpen("opened")
    \/ StartFirstRead(TRUE)
    \/ StartSpawn
    \/ \E t \in Threads : CaptureCheckStopped(t)
    \/ \E t \in Threads : CaptureRead(t, nframes < E2EFrames)
    \/ \E t \in Threads : CaptureIncLoad(t)
    \/ \E t \in Threads : CaptureIncStore(t)
    \/ \E t \in Threads : CapturePush(t)
    \/ ReadCheckFailure
    \/ ReadCheckLen
    \/ ReadPop

SpecE2E == Init /\ [][NextE2E]_vars

\* ---- the statistics: one started stream on a device that delivers
\* ---- StatsFrames frames, any sequence of start_counting_fps(),
\* ---- release_fps_stats() and displayed frames
CallStats(op) ==
    /\ IF op = "start" THEN nstarts = 0 ELSE _thread # 0
    /\ Call(op)

NextStats ==
    \/ \E op \in {"start", "start_counting_fps", "release_fps_stats",
                  "displayed"} : CallStats(op)
    \/ StartOpen("opened")
    \/ StartFirstRead(TRUE)
    \/ StartSpawn
    \/ \E t \in Threads : CaptureCheckStopped(t)
    \/ \E t \in Threads : CaptureRead(t, nframes < StatsFrames)
    \/ \E t \in Threads : CaptureIncLoad(t)
    \/ \E t \in Threads : CaptureIncStore(t)
    \/ \E t \in Threads : CapturePush(t)
    \/ \E m \in Timers : TimerWait(m)
    \/ \E m \in Timers : TickCopyRead(m)
    \/ \E m \in Timers : TickCopyDisplayed(m)
    \/ \E m \in Timers : TickResetRead(m)
    \/ \E m \in Timers : TickResetDisplayed(m)
    \/ StartCountingFps
    \/ ReleaseCancel
    \/ ReleaseJoin
    \/ DisplayedLoad
    \/ DisplayedStore

SpecStats == Init /\ [][NextStats]_vars

\* ---- the statistics with start_counting_fps() called once: one
\* ---- RepeatTimer, the capture loop and the displayed frames
CallTick(op) ==
    /\ op = "start_counting_fps" => NumTimers = 0
    /\ CallStats(op)

NextTick ==
    \/ \E op \in {"start", "start_counting_fps", "release_fps_stats",
                  "displayed"} : CallTick(op)
    \/ StartOpen("opened")
    \/ StartFirstRead(TRUE)
    \/ StartSpawn
    \/ \E t \in Threads : CaptureCheckStopped(t)
    \/ \E t \in Threads : CaptureRead(t, nframes < StatsFrames)
    \/ \E t \in Threads : CaptureIncLoad(t)
    \/ \E t \in Threads : CaptureIncStore(t)
    \/ \E t \in Threads : CapturePush(t)
    \/ \E m \in Timers : TimerWait(m)
    \/ \E m \in Timers : TickCopyRead(m)
    \/ \E m \in Timers : TickCopyDisplayed(m)
    \/ \E m \in Timers : TickResetRead(m)
    \/ \E m \in Timers : TickResetDisplayed(m)
    \/ StartCountingFps
    \/ ReleaseCancel
    \/ ReleaseJoin
    \/ DisplayedLoad
    \/ DisplayedStore

SpecTick == Init /\ [][NextTick]_vars

\* ---- main() of app.py: the stream as a context manager, the statistics,
\* ---- the read loop
InitApp == Construct /\ app = "with_enter" /\ profile = Built

\* with JetsonVideoStream(...) as video_stream: __enter__ calls start()
MainEnter ==
    /\ app = "with_enter"
    /\ Begin("start")
    /\ app' = "entered"

\* video_stream.start_counting_fps(); an exception out of __enter__ leaves
\* the with statement without a call of __exit__
MainStartCounting ==
    /\ app = "entered" /\ cpc = "idle"
    /\ IF cres = "ok"
       THEN Begin("start_counting_fps") /\ app' = "loop"
       ELSE /\ app' = "finally"
            /\ UNCHANGED << fields, queue, counters, backend, capture,
                            timers, cpc, cres, cload, calls >>

\* frame = enhanced_csi.read_camera(video_stream, True)
MainReadCamera ==
    /\ app = "loop"
    /\ Begin("read")
    /\ app' = "got_frame"

\* video_stream.frames_displayed += 1; an exception of read() leaves the
\* body, and __exit__ calls stop()
MainCountDisplayed ==
    /\ app = "got_frame" /\ cpc = "idle"
    /\ IF cres = "frame"
       THEN Begin("displayed") /\ app' = "check_exit"
       ELSE Begin("stop") /\ app' = "finally"

\* if streamer.check_exit(): break, then video_stream.release_fps_stats()
MainCheckExit(exit) ==
    /\ app = "check_exit" /\ cpc = "idle"
    /\ IF exit
       THEN Begin("release_fps_stats") /\ app' = "with_exit"
       ELSE /\ app' = "loop"
            /\ UNCHANGED << fields, queue, counters, backend, capture,
                            timers, cpc, cres, cload, calls >>

\* the end of the with block: __exit__ calls stop()
MainExit ==
    /\ app = "with_exit"
    /\ Begin("stop")
    /\ app' = "finally"

NextApp ==
    \/ MainEnter
    \/ MainStartCounting
    \/ MainReadCamera
    \/ MainCountDisplayed
    \/ \E exit \in BOOLEAN : MainCheckExit(exit)
    \/ MainExit
    \/ \E o \in {"raise", "closed", "opened"} : StartOpen(o)
    \/ \E ok \in BOOLEAN : Delivers(ok, MaxFrames) /\ StartFirstRead(ok)
    \/ StartSpawn
    \/ \E t \in Threads : CaptureCheckStopped(t)
    \/ \E t \in Threads, ok \in BOOLEAN :
          Delivers(ok, MaxFrames) /\ CaptureRead(t, ok)
    \/ \E t \in Threads : CaptureIncLoad(t)
    \/ \E t \in Threads : CaptureIncStore(t)
    \/ \E t \in Threads : CapturePush(t)
    \/ ReadCheckFailure
    \/ ReadCheckLen
    \/ ReadPop
    \/ StopSet
    \/ StopJoin
    \/ StopRelease
    \/ \E m \in Timers : TimerWait(m)
    \/ \E m \in Timers : TickCopyRead(m)
    \/ \E m \in Timers : TickCopyDisplayed(m)
    \/ \E m \in Timers : TickResetRead(m)
    \/ \E m \in Timers : TickResetDisplayed(m)
    \/ StartCountingFps
    \/ ReleaseCancel
    \/ ReleaseJoin
    \/ DisplayedLoad
    \/ DisplayedStore

SpecApp == InitApp /\ [][NextApp]_vars

\* ---- properties of the lifecycle (Spec) ----
Live(t) == tpc[t] \in {"check", "read", "inc_load", "inc_store", "push"}
Capturing(t) == tpc[t] \in {"read", "inc_load", "inc_store", "push"}
Last(s) == s[Len(s)]

\* C1: a read() that finds the failure flag set raises CameraConnectionLost
\* at its next step, whatever the frame queue holds: it neither goes on to
\* the queue nor spins.
ReadAfterFailureRaises ==
    [][(cpc = "read_check_failure" /\ _update_failure = "set" /\ cpc' # cpc)
        => (cpc' = "idle" /\ cres' = "CameraConnectionLost"
            /\ _frame_queue' = _frame_queue /\ delivered' = delivered)]_vars

\* C1 witness: a read() has raised CameraConnectionLost while the queue
\* still held a frame
ReadRaisedWithFramesQueued ==
    /\ cop = "read" /\ cpc = "idle" /\ cres = "CameraConnectionLost"
    /\ _update_failure = "set" /\ Len(_frame_queue) > 0

\* C3: the queue never holds more than QueueDepth frames, and after more
\* than QueueDepth pushes without a pop it holds exactly the two frames
\* pushed last; a capture thread that is about to push can always push.
QueueBounded ==
    /\ Len(_frame_queue) <= QueueDepth
    /\ nopop > QueueDepth =>
          /\ Len(pushed) >= 2
          /\ _frame_queue = << pushed[Len(pushed)], pushed[Len(pushed) - 1] >>
    /\ \A t \in Threads : tpc[t] = "push" => ENABLED CapturePush(t)

\* C3 witness: three pushes without a pop
ThreePushesNoPop == nopop = 3 /\ Len(_frame_queue) = QueueDepth

\* the place of frame f in the order of the pushes
PushIndex(f) == CHOOSE i \in 1..Len(pushed) : pushed[i] = f
Retained(q) == {q[i] : i \in 1..Len(q)}
OldestRetained(q) ==
    CHOOSE f \in Retained(q) :
        \A g \in Retained(q) : PushIndex(f) <= PushIndex(g)

NoReadOnReleasedDevice == badReads = 0

\* C6: a start() called on an instance that has failed or has been stopped
\* does not bring it back to a capture thread reading frames with the
\* failure flag clear.
TerminalStatesAreTerminal ==
    (cop = "start" /\ terminalAtCall)
        => ~(_update_failure = "clear" /\ \E t \in Threads : Capturing(t))

\* C7: the first stop() after a failed start(), or after a started stream
\* lost its connection, returns without error, has released every
\* VideoCapture made exactly once and leaves no capture thread running.
StopSafeAfterFailure ==
    (/\ cop = "stop" /\ cpc = "idle" /\ nstops = 1 /\ nstarts = 1
     /\ \/ cres = "AttributeError"
        \/ NumThreads = 0
        \/ tpc[1] = "failed")
        => /\ cres = "ok"
           /\ \A d \in Devices : dev[d].state # "none" => dev[d].releases = 1
           /\ \A t \in Threads : ~Live(t)

\* C8: start() returns CameraFailedToStart when the VideoCapture is not
\* opened and when the first read fails; a capture thread is created only by
\* the step that makes start() return successfully, so a start() that raised
\* created none, and after a failed first start() no thread exists.
FailedStartSpawnsNoThread ==
    [][/\ (cpc = "start_open" /\ _stream' # _stream
              /\ dev'[_stream'].state = "closed")
          => (cpc' = "idle" /\ cres' = "CameraFailedToStart")
       /\ (cpc = "start_first_read" /\ nframes' = nframes /\ cpc' # cpc)
          => (cpc' = "idle" /\ cres' = "CameraFailedToStart")
       /\ (cpc' = "idle" /\ cpc # "idle" /\ cres' = "CameraFailedToStart")
          => (tpc' = tpc /\ _thread' = _thread
              /\ (nstarts = 1 => (NumThreads = 0 /\ _thread = 0)))
       /\ tpc' # tpc /\ NumThreads' > NumThreads
          => (cpc = "start_spawn" /\ cres' = "ok")]_vars

\* C8 witness: one start() failed on a VideoCapture that was not opened,
\* the next on its first read; no thread exists
TwoFailedStarts ==
    /\ cop = "start" /\ cpc = "idle" /\ cres = "CameraFailedToStart"
    /\ dev[1].state = "closed" /\ dev[2].state = "opened"
    /\ NumThreads = 0

\* ---- properties of the end-to-end scenario (SpecE2E) ----
ReadReturned == cop = "read" /\ cpc = "idle"

\* C2, as claimed: the first four read() calls return F1..F4 in this order
\* and the read() that raises CameraConnectionLost is the fifth.
E2EFirstFourThenLost ==
    /\ \A i \in 1..Len(delivered) : i <= 4 /\ delivered[i] = i
    /\ (ReadReturned /\ cres = "CameraConnectionLost") => Len(delivered) = 4

\* C2, amended: the frames read() returns are, in order, a strictly
\* increasing selection of F2..F5 (start() took F1), so at most four reads
\* return a frame; every read() returns a frame or raises
\* CameraConnectionLost, the latter only once the device has failed.
E2EIncreasingThenLost ==
    /\ Len(delivered) <= E2EFrames - 1
    /\ \A i \in 1..Len(delivered) : delivered[i] \in 2..E2EFrames
    /\ \A i, j \in 1..Len(delivered) : i < j => delivered[i] < delivered[j]
    /\ ReadReturned => cres \in {"frame", "CameraConnectionLost"}
    /\ (ReadReturned /\ cres = "CameraConnectionLost")
          => (_update_failure = "set" /\ nframes = E2EFrames)

\* C2 witness: the reads returned every queued frame, F2..F5, and the next
\* one raised
E2EAllFramesThenLost ==
    /\ ReadReturned /\ cres = "CameraConnectionLost"
    /\ Len(delivered) = E2EFrames - 1

\* ---- properties of the statistics (SpecStats) ----

\* C9: no increment is lost and none is counted twice: whenever no tick and
\* no increment is under way, the snapshots taken so far plus the live
\* counter add up to the increments made, for both counters.
TicksLoseNoIncrement ==
    (~TickInFlight /\ ~IncrementInFlight)
        => /\ snapRead + frames_read = counted
           /\ snapShown + frames_displayed = shown

\* ---- properties of main() (SpecApp) ----
\* C10: when main() has left the with statement, on whatever path, no
\* VideoCapture that was opened is left unreleased.
ScopeReleasesEveryDevice ==
    (app = "finally" /\ cpc = "idle")
        => \A d \in Devices : dev[d].state # "opened"

\* ---- properties of the statistics collector (SpecStats) ----
Ticking(m) == mpc[m] \notin {"none", "done"}

\* C11: a second start_counting_fps() while a timer runs, and a
\* release_fps_stats() with no timer, end in an error, and at most one
\* RepeatTimer is ever running for the stream.
StatsUsageErrorsReported ==
    /\ (cop = "release_fps_stats" /\ cpc = "idle" /\ NumTimers = 0)
          => cres # "ok"
    /\ (cop = "start_counting_fps" /\ cpc = "idle" /\ NumTimers > 1
        /\ ~finished[1]) => cres # "ok"
    /\ Cardinality({m \in Timers : Ticking(m)}) <= 1

\* C12: once release_fps_stats() has returned, no RepeatTimer is left that
\* runs or can still run update_fps_stats.
NoTickAfterRelease ==
    (cop = "release_fps_stats" /\ cpc = "idle" /\ cres = "ok")
        => \A m \in Timers : ~Ticking(m)

\* C13: as long as no tick has overlapped an increment or another tick, a
\* tick that has ended leaves in last_frames_read and last_frames_displayed
\* the numbers k and m of increments made since the tick before it, and the
\* live counters hold the increments made since it ended: 0 when it ends.
TickSnapshotsIncrements ==
    (tick.clean /\ nticks >= 1 /\ ~TickInFlight)
        => /\ last_frames_read = tick.k
           /\ last_frames_displayed = tick.m
           /\ frames_read = counted - tick.base_r
           /\ frames_displayed = shown - tick.base_d

\* C13 witness: an undisturbed tick after k = 2 and m = 1 increments
QuietTickAfterTwoAndOne ==
    /\ tick.clean /\ nticks >= 1 /\ ~TickInFlight
    /\ tick.k = 2 /\ tick.m = 1
    /\ last_frames_read = 2 /\ last_frames_displayed = 1
    /\ frames_read = 0 /\ frames_displayed = 0

\* ---- further properties of the lifecycle (Spec) ----
\* C14: the frame a read() returns is the frame pushed last.
ReadReturnsNewest ==
    [][(cpc = "read_pop" /\ cpc' = "idle" /\ cres' = "frame")
        => rframe' = Last(pushed)]_vars

\* C17: the pop at the end of read() never finds the queue empty: while
\* read() is between its length test and its pop the queue holds a frame,
\* whatever the capture loops push and evict meanwhile, and no read() ends
\* in an IndexError.
PopFindsFrame ==
    /\ cpc = "read_pop" => Len(_frame_queue) > 0
    /\ cres # "IndexError"

\* C17 witness: read() stands before its pop, three frames were pushed and
\* none popped, so the queue is full and P1 was evicted
PopAfterEviction ==
    /\ cpc = "read_pop" /\ delivered = << >>
    /\ nopop = 3 /\ Len(_frame_queue) = QueueDepth

\* C18: the frames returned by successive read() calls are frames that were
\* pushed, in the order of their pushes and none twice; with one capture
\* loop that is the order of capture, so no frame is returned after a frame
\* captured later.
DeliveredInCaptureOrder ==
    /\ \A i \in 1..Len(delivered) : delivered[i] \in Retained(pushed)
    /\ \A i, j \in 1..Len(delivered) :
          i < j => PushIndex(delivered[i]) < PushIndex(delivered[j])
    /\ NumThreads <= 1 =>
          \A i, j \in 1..Len(delivered) : i < j => delivered[i] < delivered[j]

\* C18 witness: one capture loop pushed three frames and three read() calls
\* returned them, each read before the next push
DeliveredThreeInOrder ==
    /\ NumThreads = 1 /\ Len(pushed) = 3
    /\ delivered = pushed /\ cpc = "idle"

\* C19: every read() called on a stream whose start() created a capture
\* thread eventually returns a frame or raises CameraConnectionLost.
ReadTerminates ==
    (cpc = "read_check_failure" /\ NumThreads > 0)
        ~> (/\ cop = "read" /\ cpc = "idle"
            /\ cres \in {"frame", "CameraConnectionLost"})

\* ---- further properties of main() (SpecApp) ----
\* C20: when main() has left the with statement, on whatever path, no
\* capture thread and no statistics timer is still running.
ScopeStopsEveryThread ==
    (app = "finally" /\ cpc = "idle")
        => /\ \A t \in Threads : ~Live(t)
           /\ \A m \in Timers : ~Ticking(m)

\* ---- properties of the construction (SpecProfile) ----
\* C15: for every member of FrameRotation and of JetsonCameraMode the
\* construction succeeds with flip 0/1/2 for 0/90/180 degrees and with the
\* width, height, framerate and sensor mode written in the mode's name; for
\* every other rotation or mode it ends in a ValueError and builds nothing.
ProfileResolution ==
    profile.state # "args" =>
        IF profile.rotation \in FrameRotation
           /\ profile.camera_mode \in JetsonCameraMode
        THEN /\ profile.state = "constructed"
             /\ profile.built.flip * 90 = profile.rotation.value
             /\ profile.built.sensor =
                  Params(profile.camera_mode[5], profile.camera_mode[2],
                         profile.camera_mode[3], profile.camera_mode[4])
        ELSE /\ profile.state = "ValueError"
             /\ profile.built = NotBuilt

\* C15 witness: ROTATE_180 with IMX477_2560x1440_40_3 was constructed
ProfileBuilt2560 ==
    /\ profile.state = "constructed"
    /\ profile.rotation = ROTATE_180
    /\ profile.camera_mode = IMX477_2560x1440_40_3
    /\ profile.built.flip = 2
    /\ profile.built.sensor = Params(3, 2560, 1440, 40)

\* ---- properties under fair scheduling (SpecStop, SpecFair) ----
\* C16: the stop flag is never cleared, and once it is set a capture loop
\* that comes to the head of its loop exits: it begins no backend read, so
\* only a read it had begun before is still performed, with its increment
\* and push. A stop() that has set the flag on a stream with a capture
\* thread eventually returns without error, the thread joined and the
\* VideoCapture released.
CooperativeStop ==
    /\ [][/\ _stopped => _stopped'
          /\ \A t \in Threads :
                /\ (tpc'[t] = "read" /\ tpc[t] # "read")
                      => (tpc[t] = "check" /\ ~_stopped)
                /\ (tpc[t] = "check" /\ _stopped /\ tpc'[t] # tpc[t])
                      => tpc'[t] = "done"]_vars
    /\ (cpc = "stop_join" /\ _thread # 0)
          ~> (/\ cop = "stop" /\ cpc = "idle" /\ cres = "ok"
              /\ _thread # 0 /\ tpc[_thread] \in {"done", "failed"}
              /\ _stream # 0 /\ dev[_stream].state = "released")

\* C16 witness: stop() on a stream that had pushed two frames has returned,
\* the capture loop has exited on the flag, the VideoCapture is released
StoppedAfterTwoPushes ==
    /\ cop = "stop" /\ cpc = "idle" /\ cres = "ok"
    /\ nstarts = 1 /\ tpc[1] = "done" /\ dev[1].state = "released"
    /\ Len(pushed) = 2

====
